---- MODULE Spec2Model ----
(***************************************************************************)
(* The persistent vector memory store of web-history-search-rag:           *)
(* MemoryManager (web-history-extension/backend/memory.py), its FAISS      *)
(* IndexFlatL2, its metadata list, its url_cache and its three persisted   *)
(* artifacts.                                                              *)
(*                                                                         *)
(* Vectors are tuples of integers: the float32 coordinates in units of     *)
(* 1/10 (<<9, 1>> is [0.9, 0.1]).  Squared Euclidean distances are then    *)
(* exact integers (in units of 1/100) and order exactly as in the program. *)
(***************************************************************************)
EXTENDS Integers, Sequences, FiniteSets, TLC

\* ------------------------------------------------------------------ bounds

\* largest top_k a caller passes (larger than the largest store, so that
\* "fewer than k vectors" happens)
MaxK == 4

\* how many disk operations may fail in one run
MaxFaults == 1

\* ------------------------------------------------------------------ inputs

\* Python's None: an absent optional argument, a dict key that is not there
None == "None"

\* texts the callers insert (exact-match keys of the dedup scan)
Texts == {"a", "b", "c"}

\* session ids of the agent's MemoryItems
Sessions == {"s1"}

\* page URLs of the web-history caller
Urls == {"u1"}

e1 == <<10, 0>>
e2 == <<0, 10>>
e3 == <<9, 1>>

\* what the embedding provider can answer: vectors of one fixed dimension
Embeddings == {e1, e2, e3}

\* what the provider may answer for each text that is inserted: "a" and "b"
\* may get the same vector
Provider(text) == IF text = "a" THEN {e1}
                  ELSE IF text = "b" THEN {e1, e2}
                  ELSE {e3}

\* the provider's output dimension (the length of the probe's answer)
ProviderDim == Len(e1)

\* a vector of another embedding model, passed by a caller of add_with_embedding
BadVector == <<10>>

\* the metadata dicts the callers pass: MemoryItem.dict() has a session_id and
\* no url; the page-chunk dict of Agent.process_query has a url and no session_id
ItemMetas == {[session_id |-> s, url |-> None] : s \in Sessions}
PageMetas == {[session_id |-> None, url |-> u] : u \in Urls}

\* session_filter values of retrieve: absent, the empty string, the session
\* of stored items, a session nothing was stored under
Filters == {None, "", "s1", "s2"}

\* top_k values of the callers (positive)
Ks == 1..MaxK

\* top_k of search_by_embedding when the caller passes none, as
\* Agent.process_query does
DefaultTopK == 5

\* the request handlers that may be in flight at once
Handlers == {"h1", "h2"}

\* the pages sent for indexing, each as the chunks process_webpage cuts it into
Pages == {<<"a">>, <<"b", "c">>}

\* the query embeddings of the search requests
Queries == {e1}

\* the "url" values of the page-chunk dicts: two pages and the empty string
PageUrls == {"u1", "u2", ""}

\* the pages posted to the service: their url and the chunks chunk_text cuts
\* their content into (none for an empty content)
WebPages == [url : {"u1", "u2"}, chunks : {<<>>, <<"a">>, <<"b", "c">>}]

\* ------------------------------------------------------------------ state

VARIABLES
    index,          \* self.index: NoIndex (None) or the IndexFlatL2 [d, vecs]
    metadata,       \* self.metadata: the list of record dicts
    url_cache,      \* self.url_cache: url -> time of the last insert for it
    index_file,     \* faiss.index on disk: [exists, data], data the blob
    metadata_file,  \* metadata.json on disk: [exists, data], data the JSON array
    cache_file,     \* url_cache.json on disk: [exists, data], data the JSON object
    last,           \* the last completed call: its arguments, outcome, result
    faults,         \* how many disk operations have failed so far
    tasks,          \* the request handlers (coroutines): where each one stands
    running,        \* the coroutine the event loop is running, None between two
    service         \* server.py's globals INDEX, METADATA, URL_CACHE and its files

vars == <<index, metadata, url_cache, index_file, metadata_file, cache_file, last, faults,
          tasks, running, service>>

store == <<index, metadata, url_cache>>
disk == <<index_file, metadata_file, cache_file>>
loop == <<tasks, running>>

\* ------------------------------------------------------------- python bits

Min(a, b) == IF a <= b THEN a ELSE b

\* seq[idx] of a Python list: a negative idx counts from the end; "IndexError"
\* when out of range on either side
PyHas(seq, idx) == idx < Len(seq) /\ idx >= 0 - Len(seq)
PyGet(seq, idx) == IF idx >= 0 THEN seq[idx + 1] ELSE seq[Len(seq) + idx + 1]

\* str(n) and int(s) of json.dumps / json.loads for the small numbers stored
Digits == <<"0", "1", "2", "3", "4", "5", "6", "7", "8", "9">>
IntToStr(n) == Digits[n + 1]
StrToInt(s) == (CHOOSE i \in 1..Len(Digits) : Digits[i] = s) - 1

\* ------------------------------------------------------------------- faiss

\* self.index = None
NoIndex == [none |-> TRUE, d |-> 0, vecs |-> <<>>]

\* faiss.IndexFlatL2(d)
IndexFlatL2(d) == [none |-> FALSE, d |-> d, vecs |-> <<>>]

Ntotal(idx) == Len(idx.vecs)

\* index.add(x): the wrapper asserts x.shape[1] == d
FaissCanAdd(idx, v) == Len(v) = idx.d
FaissAdd(idx, v) == [idx EXCEPT !.vecs = Append(idx.vecs, v)]

RECURSIVE SumSq(_, _, _)
SumSq(u, v, i) == IF i = 0 THEN 0
                  ELSE (u[i] - v[i]) * (u[i] - v[i]) + SumSq(u, v, i - 1)

\* the L2 metric of IndexFlatL2: the squared Euclidean distance
SqDist(u, v) == SumSq(u, v, Len(u))

\* One hit of index.search: the label (0-based position, -1 for a missing hit)
\* and its distance (Inf for a missing hit)
Inf == 0 - 1
Hit(vecs, q, p) == [label |-> p - 1, dist |-> SqDist(vecs[p], q)]
MissingHit == [label |-> 0 - 1, dist |-> Inf]

\* The orders in which an exact search may list the n nearest of vecs: distinct
\* positions, ascending distance, nothing left out that is strictly nearer than
\* something listed.  Vectors at equal distance come in either order.
Rankings(vecs, q, n) ==
    {s \in [1..n -> 1..Len(vecs)] :
        /\ \A i, j \in 1..n : i < j => s[i] # s[j]
        /\ \A i, j \in 1..n : i < j => SqDist(vecs[s[i]], q) <= SqDist(vecs[s[j]], q)
        /\ \A p \in 1..Len(vecs) : \A i \in 1..n :
              (\A j \in 1..n : s[j] # p) => SqDist(vecs[s[i]], q) <= SqDist(vecs[p], q)}

\* index.search(q, k): k hits, the min(k, ntotal) nearest first, then -1 labels
FaissSearch(idx, q, k) ==
    {[i \in 1..k |-> IF i <= Len(s) THEN Hit(idx.vecs, q, s[i]) ELSE MissingHit] :
        s \in Rankings(idx.vecs, q, Min(k, Ntotal(idx)))}

\* index.search raises (the wrapper asserts the query's dimension and k > 0)
FaissSearchRaises(idx, q, k) == Len(q) # idx.d \/ k <= 0

\* ------------------------------------------------------------ serialization

RECURSIVE Flatten(_)
Flatten(vs) == IF vs = <<>> THEN <<>> ELSE Head(vs) \o Flatten(Tail(vs))

\* faiss.write_index: the header (d, ntotal) and the coordinates in one row
WriteIndex(idx) == <<idx.d, Ntotal(idx)>> \o Flatten(idx.vecs)

\* faiss.read_index
ReadIndex(blob) ==
    [none |-> FALSE,
     d    |-> blob[1],
     vecs |-> [i \in 1..blob[2] |-> [j \in 1..blob[1] |-> blob[2 + (i - 1) * blob[1] + j]]]]

\* json.dumps of one record dict: its keys in order, absent keys left out,
\* the index as digits
DumpRecord(r) ==
    (IF r.session_id # None THEN << <<"session_id", r.session_id>> >> ELSE <<>>)
    \o (IF r.url # None THEN << <<"url", r.url>> >> ELSE <<>>)
    \o << <<"text", r.text>>, <<"index", IntToStr(r.index)>> >>

JsonHas(obj, key) == \E i \in 1..Len(obj) : obj[i][1] = key
JsonGet(obj, key) == obj[CHOOSE i \in 1..Len(obj) : obj[i][1] = key][2]

\* json.loads of one record; dict.get(key) of an absent key is None
LoadRecord(obj) ==
    [text       |-> JsonGet(obj, "text"),
     index      |-> StrToInt(JsonGet(obj, "index")),
     session_id |-> IF JsonHas(obj, "session_id") THEN JsonGet(obj, "session_id") ELSE None,
     url        |-> IF JsonHas(obj, "url") THEN JsonGet(obj, "url") ELSE None]

DumpMetadata(md) == [i \in 1..Len(md) |-> DumpRecord(md[i])]
LoadMetadata(arr) == [i \in 1..Len(arr) |-> LoadRecord(arr[i])]

\* json.dumps / json.loads of url_cache: an object url -> timestamp string
DumpCache(c) == {<<u, IntToStr(c[u])>> : u \in DOMAIN c}
LoadCache(obj) == [u \in {p[1] : p \in obj} |-> StrToInt((CHOOSE p \in obj : p[1] = u)[2])]

\* a path that does not exist
Absent == [exists |-> FALSE, data |-> <<>>]
AbsentCache == [exists |-> FALSE, data |-> {}]
File(data) == [exists |-> TRUE, data |-> data]

\* the empty dict
EmptyCache == [u \in {} |-> 0]

\* ---------------------------------------------------------- MemoryManager

\* The manager's fields and files as one value, threaded through the methods.
\* outcome is "ok" until a method raises; writes lists the artifacts written;
\* probes counts the calls of self._get_embedding("sample text").
State(ix, md, uc, xf, mf, cf) ==
    [index |-> ix, metadata |-> md, url_cache |-> uc,
     index_file |-> xf, metadata_file |-> mf, cache_file |-> cf,
     outcome |-> "ok", writes |-> <<>>, probes |-> 0]

Current == State(index, metadata, url_cache, index_file, metadata_file, cache_file)

\* Disk errors: failAt = 0 is none; failAt = j is the j-th disk operation of
\* the method raising and leaving its file as it was.

\* _save_index leaving url_cache.json out
SaveIndexSkipsCache(st, failAt) ==
    IF st.index.none \/ Ntotal(st.index) = 0 THEN st
    ELSE [st EXCEPT
            !.index_file    = IF failAt = 1 THEN @ ELSE File(WriteIndex(st.index)),
            !.metadata_file = IF failAt \in {1, 2} THEN @ ELSE File(DumpMetadata(st.metadata)),
            !.writes        = @ \o SubSeq(<<"index", "metadata">>, 1,
                                          IF failAt \in {0, 3} THEN 2 ELSE failAt - 1),
            !.outcome       = IF failAt \in {0, 3} THEN "ok" ELSE "PersistFailed"]

\* _save_index: nothing at all for no index or an empty one; otherwise the
\* three artifacts in order, stopping at the first write that raises
SaveIndex(st, failAt) ==
    IF st.index.none \/ Ntotal(st.index) = 0 THEN st
    ELSE [st EXCEPT
            !.index_file    = IF failAt = 1 THEN @ ELSE File(WriteIndex(st.index)),
            !.metadata_file = IF failAt \in {1, 2} THEN @ ELSE File(DumpMetadata(st.metadata)),
            !.cache_file    = IF failAt \in {1, 2, 3} THEN @ ELSE File(DumpCache(st.url_cache)),
            !.writes        = @ \o SubSeq(<<"index", "metadata", "cache">>, 1,
                                          IF failAt = 0 THEN 3 ELSE failAt - 1),
            !.outcome       = IF failAt = 0 THEN "ok" ELSE "PersistFailed"]

\* the dedup scan looking only at the newest record
IsDuplicateOfNewest(md, text) == md # <<>> /\ md[Len(md)].text = text

\* the dedup scan: any(item["text"] == text for item in self.metadata)
IsDuplicate(md, text) == \E i \in 1..Len(md) : md[i].text = text

\* datetime.now() as seen by the store: time is counted in records stored so
\* far, so a later insert of the same url stamps it with a later time
Now(md) == Len(md)

\* metadata["text"] = text; metadata["index"] = len(self.metadata)
NewRecord(md, text, meta) ==
    [text |-> text, index |-> Len(md), session_id |-> meta.session_id, url |-> meta.url]

\* self.url_cache[url] = now, for a truthy url
CacheUrl(uc, url, now) ==
    IF url = None \/ url = "" THEN uc
    ELSE [u \in DOMAIN uc \cup {url} |-> IF u = url THEN now ELSE uc[u]]

\* add_with_embedding calling index.add before the dedup scan: the vector of
\* a duplicate text is added without a record
AddWithEmbeddingVectorFirst(st, text, emb, meta, failAt) ==
    IF st.index.none THEN [st EXCEPT !.outcome = "NoIndex"]
    ELSE IF ~FaissCanAdd(st.index, emb) THEN [st EXCEPT !.outcome = "DimensionMismatch"]
    ELSE LET added == [st EXCEPT !.index = FaissAdd(st.index, emb)]
             md == Append(st.metadata, NewRecord(st.metadata, text, meta))
         IN IF IsDuplicate(st.metadata, text) THEN added
            ELSE SaveIndex([added EXCEPT
                              !.metadata  = md,
                              !.url_cache = CacheUrl(st.url_cache, meta.url, Now(md))],
                           failAt)

\* add_with_embedding appending the record before index.add is tried: a
\* vector the index refuses leaves its record behind
AddWithEmbeddingRecordFirst(st, text, emb, meta, failAt) ==
    IF IsDuplicate(st.metadata, text) THEN st
    ELSE LET md == Append(st.metadata, NewRecord(st.metadata, text, meta))
             kept == [st EXCEPT !.metadata = md]
         IN IF st.index.none THEN [kept EXCEPT !.outcome = "NoIndex"]
            ELSE IF ~FaissCanAdd(st.index, emb)
            THEN [kept EXCEPT !.outcome = "DimensionMismatch"]
            ELSE SaveIndex([kept EXCEPT
                              !.index     = FaissAdd(st.index, emb),
                              !.url_cache = CacheUrl(st.url_cache, meta.url, Now(md))],
                           failAt)

\* add_with_embedding undoing the insert when the save raises
AddWithEmbeddingRollsBack(st, text, emb, meta, failAt) ==
    IF IsDuplicate(st.metadata, text) THEN st
    ELSE IF st.index.none THEN [st EXCEPT !.outcome = "NoIndex"]
    ELSE IF ~FaissCanAdd(st.index, emb) THEN [st EXCEPT !.outcome = "DimensionMismatch"]
    ELSE LET md == Append(st.metadata, NewRecord(st.metadata, text, meta))
             saved == SaveIndex([st EXCEPT
                                   !.index     = FaissAdd(st.index, emb),
                                   !.metadata  = md,
                                   !.url_cache = CacheUrl(st.url_cache, meta.url, Now(md))],
                                failAt)
         IN IF saved.outcome = "ok" THEN saved
            ELSE [saved EXCEPT !.index = st.index, !.metadata = st.metadata,
                               !.url_cache = st.url_cache]

\* add_with_embedding taking the dimension of the first vector it is given:
\* an empty index of another dimension is replaced by one that fits
AddWithEmbeddingAdoptsDimension(st, text, emb, meta, failAt) ==
    IF IsDuplicate(st.metadata, text) THEN st
    ELSE IF st.index.none THEN [st EXCEPT !.outcome = "NoIndex"]
    ELSE IF ~FaissCanAdd(st.index, emb) /\ Ntotal(st.index) > 0
    THEN [st EXCEPT !.outcome = "DimensionMismatch"]
    ELSE LET md == Append(st.metadata, NewRecord(st.metadata, text, meta))
         IN SaveIndex([st EXCEPT
                         !.index     = FaissAdd(IndexFlatL2(Len(emb)), emb),
                         !.metadata  = md,
                         !.url_cache = CacheUrl(st.url_cache, meta.url, Now(md))],
                      failAt)

\* add_with_embedding replacing the stored record of a text it is given
\* again (an upsert) where the code returns
AddWithEmbeddingUpserts(st, text, emb, meta, failAt) ==
    IF IsDuplicate(st.metadata, text)
    THEN LET i == CHOOSE j \in 1..Len(st.metadata) : st.metadata[j].text = text
         IN SaveIndex([st EXCEPT
                         !.metadata[i].session_id = meta.session_id,
                         !.metadata[i].url        = meta.url],
                      failAt)
    ELSE IF st.index.none THEN [st EXCEPT !.outcome = "NoIndex"]
    ELSE IF ~FaissCanAdd(st.index, emb) THEN [st EXCEPT !.outcome = "DimensionMismatch"]
    ELSE LET md == Append(st.metadata, NewRecord(st.metadata, text, meta))
         IN SaveIndex([st EXCEPT
                         !.index     = FaissAdd(st.index, emb),
                         !.metadata  = md,
                         !.url_cache = CacheUrl(st.url_cache, meta.url, Now(md))],
                      failAt)

\* add_with_embedding skipping a chunk whose url is cached already, as the
\* page-level dedup of the service does
AddWithEmbeddingSkipsCachedUrl(st, text, emb, meta, failAt) ==
    IF IsDuplicate(st.metadata, text) \/ meta.url \in DOMAIN st.url_cache THEN st
    ELSE IF st.index.none THEN [st EXCEPT !.outcome = "NoIndex"]
    ELSE IF ~FaissCanAdd(st.index, emb) THEN [st EXCEPT !.outcome = "DimensionMismatch"]
    ELSE LET md == Append(st.metadata, NewRecord(st.metadata, text, meta))
         IN SaveIndex([st EXCEPT
                         !.index     = FaissAdd(st.index, emb),
                         !.metadata  = md,
                         !.url_cache = CacheUrl(st.url_cache, meta.url, Now(md))],
                      failAt)

\* add_with_embedding(text, embedding, metadata)
AddWithEmbedding(st, text, emb, meta, failAt) ==
    IF IsDuplicate(st.metadata, text) THEN st
    ELSE IF st.index.none THEN [st EXCEPT !.outcome = "NoIndex"]
    ELSE IF ~FaissCanAdd(st.index, emb) THEN [st EXCEPT !.outcome = "DimensionMismatch"]
    ELSE LET md == Append(st.metadata, NewRecord(st.metadata, text, meta))
         IN SaveIndex([st EXCEPT
                         !.index     = FaissAdd(st.index, emb),
                         !.metadata  = md,
                         !.url_cache = CacheUrl(st.url_cache, meta.url, Now(md))],
                      failAt)

\* add(item) once the provider has answered emb: add_with_embedding, then a
\* second _save_index
AddItem(st, text, emb, meta, failAt1, failAt2) ==
    LET mid == AddWithEmbedding(st, text, emb, meta, failAt1)
    IN IF mid.outcome # "ok" THEN mid ELSE SaveIndex(mid, failAt2)

\* add(item) logging the provider's error and returning
AddItemEmbedFailsSwallowed(st) == st

\* add(item) when _get_embedding raises
AddItemEmbedFails(st) == [st EXCEPT !.outcome = "EmbeddingFailed"]

\* truthiness of an Optional[str]: None and "" are both falsy
Truthy(x) == x # None /\ x # ""

\* MemoryItem(**memory_data) validates: session_id (and type) are required
\* fields, which only the dicts made by MemoryItem.dict() carry
IsMemoryItem(r) == r.session_id # None
MemoryItemOf(r) == [text |-> r.text, session_id |-> r.session_id]

\* the loop of retrieve over the labels I[0], from hit i on; raised when
\* metadata[idx] or MemoryItem(**memory_data) raises
RECURSIVE RetrieveLoop(_, _, _, _, _)
RetrieveLoop(md, hits, i, filter, acc) ==
    IF i > Len(hits) THEN [raised |-> FALSE, items |-> acc]
    ELSE LET idx == hits[i].label
         IN IF idx >= Len(md) THEN RetrieveLoop(md, hits, i + 1, filter, acc)
            ELSE IF ~PyHas(md, idx) THEN [raised |-> TRUE, items |-> <<>>]
            ELSE LET memory_data == PyGet(md, idx)
                 IN IF Truthy(filter) /\ memory_data.session_id # filter
                    THEN RetrieveLoop(md, hits, i + 1, filter, acc)
                    ELSE IF ~IsMemoryItem(memory_data) THEN [raised |-> TRUE, items |-> <<>>]
                    ELSE RetrieveLoop(md, hits, i + 1, filter,
                                      Append(acc, MemoryItemOf(memory_data)))

\* retrieve once the query is embedded and the index searched: the results,
\* or [] when anything in the try block raised
RetrieveResults(md, hits, filter) ==
    LET r == RetrieveLoop(md, hits, 1, filter, <<>>)
    IN IF r.raised THEN <<>> ELSE r.items

\* score = 1 / (1 + dist) as the fraction num/den (dist is in units of 1/100);
\* 1 / (1 + inf) is 0
Score(dist) == IF dist = Inf THEN [num |-> 0, den |-> 1]
               ELSE [num |-> 100, den |-> 100 + dist]

\* SearchResult(url=item.get("url", ""), content_snippet=text[:200] + "...",
\* score=..., chunk_id=str(idx)); chunk_id is kept as the number it prints
SearchResultOf(item, hit) ==
    [url |-> IF item.url = None THEN "" ELSE item.url,
     content_snippet |-> <<item.text, "...">>,
     score |-> Score(hit.dist),
     chunk_id |-> hit.label]

\* the loop of search_by_embedding without its seen_texts check
RECURSIVE SearchLoopNoSeen(_, _, _, _, _)
SearchLoopNoSeen(md, hits, i, seen_texts, acc) ==
    IF i > Len(hits) THEN [raised |-> FALSE, items |-> acc]
    ELSE LET idx == hits[i].label
         IN IF ~(idx < Len(md)) THEN SearchLoopNoSeen(md, hits, i + 1, seen_texts, acc)
            ELSE IF ~PyHas(md, idx) THEN [raised |-> TRUE, items |-> <<>>]
            ELSE SearchLoopNoSeen(md, hits, i + 1, seen_texts,
                                  Append(acc, SearchResultOf(PyGet(md, idx), hits[i])))

\* the loop of search_by_embedding over zip(distances[0], indices[0])
RECURSIVE SearchLoop(_, _, _, _, _)
SearchLoop(md, hits, i, seen_texts, acc) ==
    IF i > Len(hits) THEN [raised |-> FALSE, items |-> acc]
    ELSE LET idx == hits[i].label
         IN IF ~(idx < Len(md)) THEN SearchLoop(md, hits, i + 1, seen_texts, acc)
            ELSE IF ~PyHas(md, idx) THEN [raised |-> TRUE, items |-> <<>>]
            ELSE LET item == PyGet(md, idx)
                 IN IF item.text \in seen_texts
                    THEN SearchLoop(md, hits, i + 1, seen_texts, acc)
                    ELSE SearchLoop(md, hits, i + 1, seen_texts \cup {item.text},
                                    Append(acc, SearchResultOf(item, hits[i])))

SearchResults(md, hits) ==
    LET r == SearchLoop(md, hits, 1, {}, <<>>)
    IN IF r.raised THEN <<>> ELSE r.items

\* get_stats(): distinct "url" values of the records that have one, the
\* record count, the size of the index file (0 when it does not exist)
GetStats(st) ==
    [indexed_urls |-> Cardinality({st.metadata[i].url : i \in
                                     {j \in 1..Len(st.metadata) : st.metadata[j].url # None}}),
     total_chunks |-> Len(st.metadata),
     index_size   |-> IF st.index_file.exists THEN Len(st.index_file.data) ELSE 0]

\* clear() without self.metadata = []
ClearKeepsMetadata(st, failAt, probeOk) ==
    LET unlinks == st.index_file.exists
        stop == IF failAt = 1 /\ ~unlinks THEN 0 ELSE failAt
        files == [st EXCEPT
                    !.index         = NoIndex,
                    !.url_cache     = EmptyCache,
                    !.index_file    = IF stop = 1 THEN @ ELSE Absent,
                    !.metadata_file = IF stop \in {1, 2} THEN @ ELSE File(<<>>),
                    !.cache_file    = IF stop \in {1, 2, 3} THEN @ ELSE File({}),
                    !.writes        = SubSeq(<<"unlink", "metadata", "cache">>,
                                             IF unlinks THEN 1 ELSE 2,
                                             IF stop = 0 THEN 3 ELSE stop - 1)]
    IN IF stop # 0 THEN [files EXCEPT !.outcome = "PersistFailed"]
       ELSE IF ~probeOk THEN [files EXCEPT !.outcome = "EmbeddingFailed", !.probes = 1]
       ELSE [files EXCEPT !.index = IndexFlatL2(ProviderDim), !.probes = 1]

\* clear(): the fields are reset first, then the files, then the probe.
\* failAt = 1: unlink raises (only tried when the index file exists);
\* failAt = 2, 3: the write of metadata.json, of url_cache.json raises
Clear(st, failAt, probeOk) ==
    LET reset == [st EXCEPT !.index = NoIndex, !.metadata = <<>>, !.url_cache = EmptyCache]
        unlinks == st.index_file.exists
        stop == IF failAt = 1 /\ ~unlinks THEN 0 ELSE failAt
        files == [reset EXCEPT
                    !.index_file    = IF stop = 1 THEN @ ELSE Absent,
                    !.metadata_file = IF stop \in {1, 2} THEN @ ELSE File(<<>>),
                    !.cache_file    = IF stop \in {1, 2, 3} THEN @ ELSE File({}),
                    !.writes        = SubSeq(<<"unlink", "metadata", "cache">>,
                                             IF unlinks THEN 1 ELSE 2,
                                             IF stop = 0 THEN 3 ELSE stop - 1)]
    IN IF stop # 0 THEN [files EXCEPT !.outcome = "PersistFailed"]
       ELSE IF ~probeOk THEN [files EXCEPT !.outcome = "EmbeddingFailed", !.probes = 1]
       ELSE [files EXCEPT !.index = IndexFlatL2(ProviderDim), !.probes = 1]

\* _load_or_create_index loading whenever faiss.index exists, with no
\* records when metadata.json does not
LoadOrCreateIndexForIndexAlone(st, probeOk) ==
    LET fresh == [st EXCEPT !.index = NoIndex, !.metadata = <<>>, !.url_cache = EmptyCache,
                            !.outcome = "ok", !.writes = <<>>, !.probes = 0]
    IN IF st.index_file.exists
       THEN [fresh EXCEPT
               !.index     = ReadIndex(st.index_file.data),
               !.metadata  = IF st.metadata_file.exists
                             THEN LoadMetadata(st.metadata_file.data) ELSE <<>>,
               !.url_cache = IF st.cache_file.exists THEN LoadCache(st.cache_file.data)
                             ELSE EmptyCache]
       ELSE IF ~probeOk THEN [fresh EXCEPT !.outcome = "EmbeddingFailed", !.probes = 1]
       ELSE [fresh EXCEPT !.index = IndexFlatL2(ProviderDim), !.probes = 1]

\* _load_or_create_index() of a new manager (metadata = [], url_cache = {},
\* index = None so far): load when both files exist, else probe and create
LoadOrCreateIndex(st, probeOk) ==
    LET fresh == [st EXCEPT !.index = NoIndex, !.metadata = <<>>, !.url_cache = EmptyCache,
                            !.outcome = "ok", !.writes = <<>>, !.probes = 0]
    IN IF st.index_file.exists /\ st.metadata_file.exists
       THEN [fresh EXCEPT
               !.index     = ReadIndex(st.index_file.data),
               !.metadata  = LoadMetadata(st.metadata_file.data),
               !.url_cache = IF st.cache_file.exists THEN LoadCache(st.cache_file.data)
                             ELSE EmptyCache]
       ELSE IF ~probeOk THEN [fresh EXCEPT !.outcome = "EmbeddingFailed", !.probes = 1]
       ELSE [fresh EXCEPT !.index = IndexFlatL2(ProviderDim), !.probes = 1]

\* ------------------------------------------------------- the service (server.py)

\* The service's globals and files as one value, threaded through a handler.
\* outcome is "success" until the handler answers otherwise or raises; writes
\* lists the artifacts written; chunks_indexed is the count it answers.
Serving(sv) ==
    [INDEX |-> sv.INDEX, METADATA |-> sv.METADATA, URL_CACHE |-> sv.URL_CACHE,
     INDEX_FILE |-> sv.INDEX_FILE, METADATA_FILE |-> sv.METADATA_FILE,
     CACHE_FILE |-> sv.CACHE_FILE,
     outcome |-> "success", writes |-> <<>>, chunks_indexed |-> 0]

\* the globals and files a handler left
Globals(st) ==
    [INDEX |-> st.INDEX, METADATA |-> st.METADATA, URL_CACHE |-> st.URL_CACHE,
     INDEX_FILE |-> st.INDEX_FILE, METADATA_FILE |-> st.METADATA_FILE,
     CACHE_FILE |-> st.CACHE_FILE]

\* the module started on an empty faiss_index directory: url_cache.json and
\* metadata.json are written empty, there is no index.bin and INDEX is None
ServiceStart ==
    [INDEX |-> NoIndex, METADATA |-> <<>>, URL_CACHE |-> EmptyCache,
     INDEX_FILE |-> Absent, METADATA_FILE |-> File(<<>>), CACHE_FILE |-> File({})]

\* the vectors get_embedding returns for the chunks of a page, one per chunk
\* (Ollama and the Gemini fallback answer in the same dimension)
Embedded(chunks) ==
    {embs \in [1..Len(chunks) -> Embeddings] :
        \A i \in 1..Len(chunks) : embs[i] \in Provider(chunks[i])}

\* the metadata dict of the chunk enumerate() numbers i (from 0);
\* chunk_id is f"{url}_{i}"
PageRecord(webpage, i, timestamp) ==
    [url |-> webpage.url, chunk |-> webpage.chunks[i + 1], chunk_id |-> <<webpage.url, i>>,
     timestamp |-> timestamp]

\* json.dumps(METADATA): a list of objects, the timestamp a string
DumpPages(md) ==
    [i \in 1..Len(md) |-> <<<<"url", md[i].url>>, <<"chunk", md[i].chunk>>,
                            <<"chunk_id", md[i].chunk_id>>,
                            <<"timestamp", IntToStr(md[i].timestamp)>>>>]

\* save_index(): nothing for no INDEX or an empty one; otherwise the three
\* artifacts in order, the first write that raises ending the request
save_index(st, failAt) ==
    IF st.INDEX.none \/ Ntotal(st.INDEX) = 0 THEN st
    ELSE [st EXCEPT
            !.INDEX_FILE    = IF failAt = 1 THEN @ ELSE File(WriteIndex(st.INDEX)),
            !.METADATA_FILE = IF failAt \in {1, 2} THEN @ ELSE File(DumpPages(st.METADATA)),
            !.CACHE_FILE    = IF failAt \in {1, 2, 3} THEN @ ELSE File(DumpCache(st.URL_CACHE)),
            !.writes        = @ \o SubSeq(<<"index", "metadata", "cache">>, 1,
                                          IF failAt = 0 THEN 3 ELSE failAt - 1),
            !.outcome       = IF failAt = 0 THEN @ ELSE "PersistFailed"]

\* index_webpage adding each vector to INDEX as soon as it is embedded
index_webpage_chunkwise(st, webpage, embs, embedFailsAt, failAt) ==
    LET chunks == webpage.chunks
        got == IF embedFailsAt = 0 THEN Len(chunks) ELSE embedFailsAt - 1
        created == IF st.INDEX.none /\ got > 0 THEN IndexFlatL2(Len(embs[1])) ELSE st.INDEX
        added == IF got = 0 THEN created
                 ELSE [created EXCEPT !.vecs = @ \o SubSeq(embs, 1, got)]
        timestamp == Now(st.METADATA)
    IN IF webpage.url \in DOMAIN st.URL_CACHE THEN [st EXCEPT !.outcome = "skipped"]
       ELSE IF chunks = <<>> THEN [st EXCEPT !.outcome = "NoContent"]
       ELSE IF embedFailsAt # 0 THEN [st EXCEPT !.INDEX = added, !.outcome = "EmbeddingFailed"]
       ELSE save_index(
               [st EXCEPT
                  !.INDEX     = added,
                  !.METADATA  = @ \o [i \in 1..Len(chunks) |->
                                        PageRecord(webpage, i - 1, timestamp)],
                  !.URL_CACHE = [u \in DOMAIN @ \cup {webpage.url} |->
                                   IF u = webpage.url THEN timestamp ELSE @[u]],
                  !.chunks_indexed = Len(chunks)],
               failAt)

\* index_webpage(webpage): a cached url is skipped; a page without chunks is
\* refused; the chunks are embedded one by one into local lists (the
\* embedFailsAt-th get_embedding raising, 0 for none); only then INDEX is
\* created if there is none, the vectors and the records are added, the url is
\* cached and save_index() runs. The handler has no await: it runs in one
\* piece of the event loop.
index_webpage(st, webpage, embs, embedFailsAt, failAt) ==
    LET chunks == webpage.chunks
        created == IF st.INDEX.none THEN IndexFlatL2(Len(embs[1])) ELSE st.INDEX
        timestamp == Now(st.METADATA)
    IN IF webpage.url \in DOMAIN st.URL_CACHE THEN [st EXCEPT !.outcome = "skipped"]
       ELSE IF chunks = <<>> THEN [st EXCEPT !.outcome = "NoContent"]
       ELSE IF embedFailsAt # 0 THEN [st EXCEPT !.outcome = "EmbeddingFailed"]
       ELSE IF \E i \in 1..Len(embs) : ~FaissCanAdd(created, embs[i])
       THEN [st EXCEPT !.INDEX = created, !.outcome = "DimensionMismatch"]
       ELSE save_index(
               [st EXCEPT
                  !.INDEX     = [created EXCEPT !.vecs = @ \o embs],
                  !.METADATA  = @ \o [i \in 1..Len(chunks) |->
                                        PageRecord(webpage, i - 1, timestamp)],
                  !.URL_CACHE = [u \in DOMAIN @ \cup {webpage.url} |->
                                   IF u = webpage.url THEN timestamp ELSE @[u]],
                  !.chunks_indexed = Len(chunks)],
               failAt)

\* clear_index() assigning a local URL_CACHE (the name missing from its
\* global statement)
clear_index_keeps_cache(st, failAt) ==
    LET removes == st.INDEX_FILE.exists
        stop == IF failAt = 1 /\ ~removes THEN 0 ELSE failAt
    IN [st EXCEPT
          !.INDEX         = NoIndex,
          !.METADATA      = <<>>,
          !.INDEX_FILE    = IF stop = 1 THEN @ ELSE Absent,
          !.METADATA_FILE = IF stop \in {1, 2} THEN @ ELSE File(<<>>),
          !.CACHE_FILE    = IF stop \in {1, 2, 3} THEN @ ELSE File({}),
          !.writes        = SubSeq(<<"remove", "metadata", "cache">>,
                                   IF removes THEN 1 ELSE 2,
                                   IF stop = 0 THEN 3 ELSE stop - 1),
          !.outcome       = IF stop = 0 THEN @ ELSE "PersistFailed"]

\* clear_index(): the three globals are reset first, then index.bin is
\* removed if it exists and the two json files are written empty.
\* failAt = 1: os.remove raises; failAt = 2, 3: the write of metadata.json,
\* of url_cache.json raises
clear_index(st, failAt) ==
    LET removes == st.INDEX_FILE.exists
        stop == IF failAt = 1 /\ ~removes THEN 0 ELSE failAt
    IN [st EXCEPT
          !.INDEX         = NoIndex,
          !.METADATA      = <<>>,
          !.URL_CACHE     = EmptyCache,
          !.INDEX_FILE    = IF stop = 1 THEN @ ELSE Absent,
          !.METADATA_FILE = IF stop \in {1, 2} THEN @ ELSE File(<<>>),
          !.CACHE_FILE    = IF stop \in {1, 2, 3} THEN @ ELSE File({}),
          !.writes        = SubSeq(<<"remove", "metadata", "cache">>,
                                   IF removes THEN 1 ELSE 2,
                                   IF stop = 0 THEN 3 ELSE stop - 1),
          !.outcome       = IF stop = 0 THEN @ ELSE "PersistFailed"]

\* ----------------------------------------------------------------- actions

\* the record of a call: what was passed, how it ended, what it returned
NoCall ==
    [op |-> "init", text |-> None, vec |-> <<>>, k |-> 0, filter |-> None,
     outcome |-> "ok", caught |-> FALSE, writes |-> <<>>, probes |-> 0, result |-> <<>>]

\* the fields and files take the values the method left
Becomes(st) ==
    /\ index' = st.index
    /\ metadata' = st.metadata
    /\ url_cache' = st.url_cache
    /\ index_file' = st.index_file
    /\ metadata_file' = st.metadata_file
    /\ cache_file' = st.cache_file

\* a handler that is not serving a request; chunks are the chunks still to
\* insert, vec the embedding awaited last, pos the len(self.metadata) read
IdleTask == [pc |-> "idle", chunks |-> <<>>, vec |-> <<>>, pos |-> 0]

\* a fresh MemoryManager on an empty directory, the probe answered
Init ==
    /\ index = IndexFlatL2(ProviderDim)
    /\ metadata = <<>>
    /\ url_cache = EmptyCache
    /\ index_file = Absent
    /\ metadata_file = Absent
    /\ cache_file = AbsentCache
    /\ last = NoCall
    /\ faults = 0
    /\ tasks = [h \in Handlers |-> IdleTask]
    /\ running = None
    /\ service = ServiceStart

\* vec is the provider's answer, <<>> when it gave none
AddCall(text, emb, st) ==
    [NoCall EXCEPT !.op = "add", !.text = text, !.vec = emb,
                   !.outcome = st.outcome, !.writes = st.writes]

\* memory.add(MemoryItem(text=..., session_id=...)), the disk working
Add ==
    \E text \in Texts, meta \in ItemMetas :
        /\ \/ \E emb \in Provider(text) :
                 LET st == AddItem(Current, text, emb, meta, 0, 0)
                 IN Becomes(st) /\ last' = AddCall(text, emb, st)
           \/ LET st == AddItemEmbedFails(Current)
              IN Becomes(st) /\ last' = AddCall(text, <<>>, st)
        /\ UNCHANGED <<faults, loop, service>>

AddWithEmbCall(text, emb, st) ==
    [NoCall EXCEPT !.op = "add_with_embedding", !.text = text, !.vec = emb,
                   !.outcome = st.outcome, !.writes = st.writes]

\* memory.add_with_embedding(text, embedding, metadata), the disk working
AddWithEmb ==
    \E text \in Texts, meta \in ItemMetas \cup PageMetas :
        \E emb \in Provider(text) \cup {BadVector} :
            LET st == AddWithEmbedding(Current, text, emb, meta, 0)
            IN /\ Becomes(st)
               /\ last' = AddWithEmbCall(text, emb, st)
               /\ UNCHANGED <<faults, loop, service>>

RetrieveCall(k, filter) == [NoCall EXCEPT !.op = "retrieve", !.k = k, !.filter = filter]

\* memory.retrieve(query, top_k, session_filter): the early return, the
\* provider failing, the search
Retrieve ==
    /\ UNCHANGED <<store, disk, faults, loop, service>>
    /\ IF index.none \/ Ntotal(index) = 0
       THEN \E k \in Ks, filter \in Filters : last' = RetrieveCall(k, filter)
       ELSE \/ \E k \in Ks, filter \in Filters :
                  last' = [RetrieveCall(k, filter) EXCEPT !.caught = TRUE]
            \/ \E k \in Ks, q \in Embeddings :
                  IF FaissSearchRaises(index, q, k)
                  THEN \E filter \in Filters :
                          last' = [RetrieveCall(k, filter) EXCEPT !.vec = q, !.caught = TRUE]
                  ELSE \E hits \in FaissSearch(index, q, k), filter \in Filters :
                          LET r == RetrieveLoop(metadata, hits, 1, filter, <<>>)
                          IN last' = [RetrieveCall(k, filter) EXCEPT
                                        !.vec = q,
                                        !.caught = r.raised,
                                        !.result = RetrieveResults(metadata, hits, filter)]

SearchCall(q, k) == [NoCall EXCEPT !.op = "search_by_embedding", !.k = k, !.vec = q]

\* memory.search_by_embedding(embedding, top_k)
SearchByEmbedding ==
    \E q \in Embeddings \cup {BadVector}, k \in Ks :
        /\ UNCHANGED <<store, disk, faults, loop, service>>
        /\ IF index.none \/ Ntotal(index) = 0
           THEN last' = SearchCall(q, k)
           ELSE IF FaissSearchRaises(index, q, k)
           THEN last' = [SearchCall(q, k) EXCEPT !.caught = TRUE]
           ELSE \E hits \in FaissSearch(index, q, k) :
                   last' = [SearchCall(q, k) EXCEPT
                              !.caught = SearchLoop(metadata, hits, 1, {}, <<>>).raised,
                              !.result = SearchResults(metadata, hits)]

\* memory.get_stats()
Stats ==
    /\ UNCHANGED <<store, disk, faults, loop, service>>
    /\ last' = [NoCall EXCEPT !.op = "get_stats", !.result = <<GetStats(Current)>>]

ClearCall(st) ==
    [NoCall EXCEPT !.op = "clear", !.outcome = st.outcome, !.writes = st.writes,
                   !.probes = st.probes]

\* memory.clear(), the disk working; the probe may fail
ClearAll ==
    \E probeOk \in BOOLEAN :
        LET st == Clear(Current, 0, probeOk)
        IN Becomes(st) /\ last' = ClearCall(st) /\ UNCHANGED <<faults, loop, service>>

\* memory.add(item) with one disk operation of one of its two saves failing
AddDiskFails ==
    /\ faults < MaxFaults
    /\ faults' = faults + 1
    /\ UNCHANGED <<loop, service>>
    /\ \E text \in Texts, meta \in ItemMetas :
          \E emb \in Provider(text), f \in {<<1, 0>>, <<2, 0>>, <<3, 0>>, <<0, 1>>, <<0, 2>>, <<0, 3>>} :
              LET st == AddItem(Current, text, emb, meta, f[1], f[2])
              IN /\ st.outcome = "PersistFailed"
                 /\ Becomes(st)
                 /\ last' = AddCall(text, emb, st)

\* memory.add_with_embedding(...) with one disk operation of its save failing
AddWithEmbDiskFails ==
    /\ faults < MaxFaults
    /\ faults' = faults + 1
    /\ UNCHANGED <<loop, service>>
    /\ \E text \in Texts, meta \in ItemMetas \cup PageMetas :
          \E emb \in Provider(text), f \in 1..3 :
              LET st == AddWithEmbedding(Current, text, emb, meta, f)
              IN /\ st.outcome = "PersistFailed"
                 /\ Becomes(st)
                 /\ last' = AddWithEmbCall(text, emb, st)

\* memory.clear() with one of its disk operations failing
ClearDiskFails ==
    /\ faults < MaxFaults
    /\ faults' = faults + 1
    /\ UNCHANGED <<loop, service>>
    /\ \E f \in 1..3 :
          LET st == Clear(Current, f, TRUE)
          IN /\ st.outcome = "PersistFailed"
             /\ Becomes(st)
             /\ last' = ClearCall(st)

\* MemoryManager(index_dir) on the same directory: the new manager replaces
\* the old one when its constructor returns; when the probe fails the
\* constructor raises and there is no new manager
Restart ==
    /\ UNCHANGED <<faults, loop, service>>
    /\ \E probeOk \in BOOLEAN :
          LET st == LoadOrCreateIndex(Current, probeOk)
          IN /\ IF st.outcome = "ok" THEN Becomes(st) ELSE UNCHANGED <<store, disk>>
             /\ last' = [NoCall EXCEPT !.op = "restart", !.outcome = st.outcome,
                                       !.probes = st.probes]

\* the calls of the agents, the disk never failing
Next == Add \/ AddWithEmb \/ Retrieve \/ SearchByEmbedding \/ Stats \/ ClearAll

Spec == Init /\ [][Next]_vars

\* the mutating calls, disk operations failing up to MaxFaults times
NextDisk ==
    \/ Add \/ AddWithEmb \/ ClearAll
    \/ AddDiskFails \/ AddWithEmbDiskFails \/ ClearDiskFails

SpecDisk == Init /\ [][NextDisk]_vars

\* the same, and the process restarting on the same directory
NextRestart == NextDisk \/ Restart

SpecRestart == Init /\ [][NextRestart]_vars

\* inserts whose save may fail, restarts on the same directory, and the
\* queries: the stores a new manager loads from files of different lengths
NextLoaded ==
    \/ Add \/ AddDiskFails \/ ClearAll \/ Restart
    \/ Retrieve \/ SearchByEmbedding

SpecLoaded == Init /\ [][NextLoaded]_vars

\* memory.add_with_embedding(chunk, embedding, {"url": ...}) for the chunks of
\* several pages, the disk working
AddPageChunk ==
    \E text \in Texts, u \in PageUrls :
        \E emb \in Provider(text) :
            LET st == AddWithEmbedding(Current, text, emb, [session_id |-> None, url |-> u], 0)
            IN /\ Becomes(st)
               /\ last' = AddWithEmbCall(text, emb, st)
               /\ UNCHANGED <<faults, loop, service>>

\* page chunks of several urls inserted and cleared, disk operations failing
\* up to MaxFaults times
NextUrls == AddPageChunk \/ AddWithEmbDiskFails \/ ClearAll \/ ClearDiskFails

SpecUrls == Init /\ [][NextUrls]_vars

\* ------------------------------------------------- the asynchronous handlers

\* Agent's handlers are coroutines on one event loop; MemoryManager's methods
\* are plain functions.  A coroutine is at one of these places:
\*   idle          not serving a request
\*   embed_chunk   suspended in `await get_embedding(chunk)`
\*   add_index     add_with_embedding: the dedup scan and index.add
\*   add_len       metadata["index"] = len(self.metadata)
\*   add_append    self.metadata.append(metadata)
\*   add_save      the url_cache update and _save_index
\*   embed_query   suspended in `await get_embedding(query)`
\*   search        search_by_embedding
\*   clear_reset   clear: index = None, metadata = [], url_cache = {}
\*   clear_files   clear: unlink and the two writes
\*   clear_probe   clear: the probe and the new IndexFlatL2

\* every place is a place where the running coroutine may be preempted, as
\* it would be were the handlers run on threads
YieldsAnywhere(pc) == TRUE

\* the places where a coroutine gives the event loop back: its awaits and its
\* return; a MemoryManager method holds no await
YieldsAt(pc) == pc \in {"idle", "embed_chunk", "embed_query"}

\* the event loop may run a statement of h: nothing else is in the middle of
\* a synchronous stretch
Runs(h) == running \in {None, h}

\* h has run its statement and stands at t.pc
Moves(h, t) ==
    /\ tasks' = [tasks EXCEPT ![h] = t]
    /\ running' = IF YieldsAt(t.pc) THEN None ELSE h

\* the handler goes on to the next chunk of its page or returns
NextChunk(t) ==
    IF Len(t.chunks) > 1
    THEN [IdleTask EXCEPT !.pc = "embed_chunk", !.chunks = Tail(t.chunks)]
    ELSE IdleTask

\* the metadata dict process_query passes with each chunk
PageMeta == CHOOSE m \in PageMetas : TRUE

\* a request arrives: process_query with a webpage
StartIndex(h) ==
    /\ tasks[h].pc = "idle"
    /\ \E page \in Pages :
          tasks' = [tasks EXCEPT ![h] = [IdleTask EXCEPT !.pc = "embed_chunk", !.chunks = page]]
    /\ UNCHANGED <<store, disk, last, faults, running, service>>

\* `embedding = await get_embedding(chunk)` returns or raises (process_query
\* catches and returns the error)
EmbedChunk(h) ==
    /\ tasks[h].pc = "embed_chunk"
    /\ Runs(h)
    /\ \/ \E emb \in Provider(Head(tasks[h].chunks)) :
             Moves(h, [tasks[h] EXCEPT !.pc = "add_index", !.vec = emb])
       \/ Moves(h, IdleTask)
    /\ UNCHANGED <<store, disk, last, faults, service>>

\* add_with_embedding up to index.add: a duplicate returns, a missing index
\* or a refused vector raises
AddIndexStep(h) ==
    LET t == tasks[h]
    IN /\ t.pc = "add_index"
       /\ Runs(h)
       /\ IF IsDuplicate(metadata, Head(t.chunks))
          THEN Moves(h, NextChunk(t)) /\ UNCHANGED index
          ELSE IF index.none \/ ~FaissCanAdd(index, t.vec)
          THEN Moves(h, IdleTask) /\ UNCHANGED index
          ELSE Moves(h, [t EXCEPT !.pc = "add_len"]) /\ index' = FaissAdd(index, t.vec)
       /\ UNCHANGED <<metadata, url_cache, disk, last, faults, service>>

\* metadata["text"] = text; metadata["index"] = len(self.metadata)
AddLenStep(h) ==
    /\ tasks[h].pc = "add_len"
    /\ Runs(h)
    /\ Moves(h, [tasks[h] EXCEPT !.pc = "add_append", !.pos = Len(metadata)])
    /\ UNCHANGED <<store, disk, last, faults, service>>

\* self.metadata.append(metadata)
AddAppendStep(h) ==
    LET t == tasks[h]
    IN /\ t.pc = "add_append"
       /\ Runs(h)
       /\ metadata' = Append(metadata,
                             [NewRecord(metadata, Head(t.chunks), PageMeta) EXCEPT !.index = t.pos])
       /\ Moves(h, [t EXCEPT !.pc = "add_save"])
       /\ UNCHANGED <<index, url_cache, disk, last, faults, service>>

\* the url_cache update and _save_index
AddSaveStep(h) ==
    LET t == tasks[h]
        st == SaveIndex([Current EXCEPT
                           !.url_cache = CacheUrl(url_cache, PageMeta.url, Now(metadata))], 0)
    IN /\ t.pc = "add_save"
       /\ Runs(h)
       /\ Becomes(st)
       /\ Moves(h, NextChunk(t))
       /\ UNCHANGED <<last, faults, service>>

\* a request arrives: process_query with a search query
StartSearch(h) ==
    /\ tasks[h].pc = "idle"
    /\ tasks' = [tasks EXCEPT ![h] = [IdleTask EXCEPT !.pc = "embed_query"]]
    /\ UNCHANGED <<store, disk, last, faults, running, service>>

\* `query_embedding = await get_embedding(query)` returns or raises
EmbedQuery(h) ==
    /\ tasks[h].pc = "embed_query"
    /\ Runs(h)
    /\ \/ \E q \in Queries : Moves(h, [tasks[h] EXCEPT !.pc = "search", !.vec = q])
       \/ Moves(h, IdleTask)
    /\ UNCHANGED <<store, disk, last, faults, service>>

\* self.memory.search_by_embedding(query_embedding)
SearchStep(h) ==
    LET q == tasks[h].vec
        k == DefaultTopK
    IN /\ tasks[h].pc = "search"
       /\ Runs(h)
       /\ IF index.none \/ Ntotal(index) = 0
          THEN last' = SearchCall(q, k)
          ELSE IF FaissSearchRaises(index, q, k)
          THEN last' = [SearchCall(q, k) EXCEPT !.caught = TRUE]
          ELSE \E hits \in FaissSearch(index, q, k) :
                  last' = [SearchCall(q, k) EXCEPT
                             !.caught = SearchLoop(metadata, hits, 1, {}, <<>>).raised,
                             !.result = SearchResults(metadata, hits)]
       /\ Moves(h, IdleTask)
       /\ UNCHANGED <<store, disk, faults, service>>

\* a request arrives: clear_index
StartClear(h) ==
    /\ tasks[h].pc = "idle"
    /\ tasks' = [tasks EXCEPT ![h] = [IdleTask EXCEPT !.pc = "clear_reset"]]
    /\ UNCHANGED <<store, disk, last, faults, running, service>>

\* clear: self.index = None; self.metadata = []; self.url_cache = {}
ClearResetStep(h) ==
    /\ tasks[h].pc = "clear_reset"
    /\ Runs(h)
    /\ index' = NoIndex
    /\ metadata' = <<>>
    /\ url_cache' = EmptyCache
    /\ Moves(h, [tasks[h] EXCEPT !.pc = "clear_files"])
    /\ UNCHANGED <<disk, last, faults, service>>

\* clear: the unlink and the writes of "[]" and "{}"
ClearFilesStep(h) ==
    /\ tasks[h].pc = "clear_files"
    /\ Runs(h)
    /\ index_file' = Absent
    /\ metadata_file' = File(<<>>)
    /\ cache_file' = File({})
    /\ Moves(h, [tasks[h] EXCEPT !.pc = "clear_probe"])
    /\ UNCHANGED <<store, last, faults, service>>

\* clear: the probe (a blocking call, not an await) and the new index; when
\* the probe raises the index stays None
ClearProbeStep(h) ==
    /\ tasks[h].pc = "clear_probe"
    /\ Runs(h)
    /\ \/ index' = IndexFlatL2(ProviderDim)
       \/ UNCHANGED index
    /\ Moves(h, IdleTask)
    /\ UNCHANGED <<metadata, url_cache, disk, last, faults, service>>

\* overlapping requests served by the handlers of one Agent
NextAsync ==
    \E h \in Handlers :
        \/ StartIndex(h) \/ EmbedChunk(h)
        \/ AddIndexStep(h) \/ AddLenStep(h) \/ AddAppendStep(h) \/ AddSaveStep(h)
        \/ StartSearch(h) \/ EmbedQuery(h) \/ SearchStep(h)
        \/ StartClear(h) \/ ClearResetStep(h) \/ ClearFilesStep(h) \/ ClearProbeStep(h)

SpecAsync == Init /\ [][NextAsync]_vars

\* the record of a POST /index: the url, the chunks of the page, the vectors
\* embedded on success, the chunk whose embedding failed (0 for none)
IndexCall(webpage, embs, embedFailsAt, st) ==
    [NoCall EXCEPT !.op = "index_webpage", !.text = webpage.url,
                   !.vec = IF st.chunks_indexed = 0 THEN <<>> ELSE embs,
                   !.k = IF st.outcome = "EmbeddingFailed" THEN embedFailsAt ELSE 0,
                   !.outcome = st.outcome, !.writes = st.writes,
                   !.result = webpage.chunks]

\* POST /index, the disk working; the embedding of any chunk may fail
PostIndex ==
    \E webpage \in WebPages :
        \E embs \in Embedded(webpage.chunks), embedFailsAt \in 0..Len(webpage.chunks) :
            LET st == index_webpage(Serving(service), webpage, embs, embedFailsAt, 0)
            IN /\ service' = Globals(st)
               /\ last' = IndexCall(webpage, embs, embedFailsAt, st)
               /\ UNCHANGED <<store, disk, faults, loop>>

\* POST /index with one write of its save_index() failing
PostIndexDiskFails ==
    /\ faults < MaxFaults
    /\ faults' = faults + 1
    /\ UNCHANGED <<store, disk, loop>>
    /\ \E webpage \in WebPages :
          \E embs \in Embedded(webpage.chunks), f \in 1..3 :
              LET st == index_webpage(Serving(service), webpage, embs, 0, f)
              IN /\ st.outcome = "PersistFailed"
                 /\ service' = Globals(st)
                 /\ last' = IndexCall(webpage, embs, 0, st)

ClearIndexCall(st) ==
    [NoCall EXCEPT !.op = "clear_index", !.outcome = st.outcome, !.writes = st.writes]

\* DELETE /clear, the disk working
DeleteClear ==
    LET st == clear_index(Serving(service), 0)
    IN /\ service' = Globals(st)
       /\ last' = ClearIndexCall(st)
       /\ UNCHANGED <<store, disk, faults, loop>>

\* DELETE /clear with one of its disk operations failing
DeleteClearDiskFails ==
    /\ faults < MaxFaults
    /\ faults' = faults + 1
    /\ UNCHANGED <<store, disk, loop>>
    /\ \E f \in 1..3 :
          LET st == clear_index(Serving(service), f)
          IN /\ st.outcome = "PersistFailed"
             /\ service' = Globals(st)
             /\ last' = ClearIndexCall(st)

\* the requests of the service that change its state, disk operations failing
\* up to MaxFaults times
NextService == PostIndex \/ PostIndexDiskFails \/ DeleteClear \/ DeleteClearDiskFails

SpecService == Init /\ [][NextService]_vars

\* ------------------------------------------------------------------ claims

IsInsertCall(c) == c.op \in {"add", "add_with_embedding"}

\* the number of vectors the manager holds (none without an index)
NumVectors == IF index.none THEN 0 ELSE Ntotal(index)

Aligned ==
    /\ NumVectors = Len(metadata)
    /\ \A i \in 1..Len(metadata) : metadata[i].index = i - 1

\* an insert whose first half (index.add) did not happen: the provider gave
\* no vector, there is no index, or the index refused the vector
InsertRefused(c) ==
    IsInsertCall(c) /\ c.outcome \in {"EmbeddingFailed", "NoIndex", "DimensionMismatch"}

\* C1: after any sequence of add, add_with_embedding and clear calls from an
\* empty store, failing ones included (dimension mismatch, provider failure,
\* disk failure), the index holds as many vectors as there are records and
\* record i carries index i; an insert one half of which fails keeps neither
\* the vector nor the record.
C1_Alignment ==
    /\ []Aligned
    /\ [][InsertRefused(last') => UNCHANGED <<index, metadata>>]_vars

\* C1's case: a store of two records, a disk failure behind it, and an insert
\* just refused for its dimension
C1_Witness ==
    /\ Len(metadata) >= 2
    /\ faults = 1
    /\ last.op = "add_with_embedding"
    /\ last.outcome = "DimensionMismatch"

\* C2: add(item) or add_with_embedding(text, ...) with a text that is already
\* stored returns normally, adds no vector and no record, leaves url_cache as
\* it was and writes no persisted artifact.  (Stated for the calls in which
\* the provider answered.)
C2_DedupSilent ==
    [][(IsInsertCall(last') /\ last'.vec # <<>> /\ IsDuplicate(metadata, last'.text))
          => /\ last'.outcome = "ok"
             /\ UNCHANGED store
             /\ last'.writes = <<>>]_vars

\* the same for add_with_embedding alone, which the code does satisfy
C2_DedupSilentWithEmbedding ==
    [][(last'.op = "add_with_embedding" /\ IsDuplicate(metadata, last'.text))
          => /\ last'.outcome = "ok"
             /\ UNCHANGED <<store, disk>>
             /\ last'.writes = <<>>]_vars

NoTwoSameText ==
    \A i, j \in 1..Len(metadata) : metadata[i].text = metadata[j].text => i = j

\* C3: inserting a text that is already stored, with any metadata and any
\* embedding, leaves the record count unchanged and the stored record as the
\* first insert made it; from an empty store no two records ever have the
\* same text.
C3_InsertIdempotent ==
    /\ []NoTwoSameText
    /\ [][(IsInsertCall(last') /\ IsDuplicate(metadata, last'.text))
             => metadata' = metadata /\ index' = index]_vars

\* C3's case: "a" was stored first as a page chunk (with a url), something
\* else after it, and add(item) was then called with "a" and an item's
\* metadata
C3_Witness ==
    /\ Len(metadata) >= 2
    /\ metadata[1].url # None
    /\ last.op = "add"
    /\ last.outcome = "ok"
    /\ last.text = metadata[1].text

\* C4: for every store, every k and every session filter S the caller passes,
\* the empty string included, retrieve returns no record whose session_id
\* differs from S (so nothing at all when no record has session_id S).
C4_FilterCorrect ==
    (last.op = "retrieve" /\ last.filter # None)
        => \A i \in 1..Len(last.result) : last.result[i].session_id = last.filter

\* the same for the filters that are not the empty string, which holds
C4_FilterCorrectNonEmpty ==
    (last.op = "retrieve" /\ Truthy(last.filter))
        => \A i \in 1..Len(last.result) : last.result[i].session_id = last.filter

C4_FilterWitness ==
    /\ last.op = "retrieve"
    /\ last.filter = "s1"
    /\ Len(metadata) = 3
    /\ Len(last.result) = 1

StoredTexts == {metadata[i].text : i \in 1..Len(metadata)}

\* C5: with N >= 1 records stored, retrieve without a session filter called
\* with k > N returns exactly the N stored records, each once.  (Stated for
\* stores of MemoryItems and calls in which the provider answered.)
C5_FewerThanK ==
    (/\ last.op = "retrieve"
     /\ last.filter = None
     /\ last.vec # <<>>
     /\ Len(metadata) >= 1
     /\ last.k > Len(metadata)
     /\ \A i \in 1..Len(metadata) : IsMemoryItem(metadata[i]))
        => /\ Len(last.result) = Len(metadata)
           /\ {last.result[i].text : i \in 1..Len(last.result)} = StoredTexts

\* the same for search_by_embedding, which holds: its seen_texts check drops
\* what the -1 labels bring in
C5_FewerThanKSearch ==
    (/\ last.op = "search_by_embedding"
     /\ Len(last.vec) = ProviderDim
     /\ Len(metadata) >= 1
     /\ last.k > Len(metadata))
        => /\ Len(last.result) = Len(metadata)
           /\ {last.result[i].chunk_id : i \in 1..Len(last.result)} = 0..(Len(metadata) - 1)

\* a.score >= b.score, the scores being fractions
ScoreGeq(a, b) == a.num * b.den >= b.num * a.den

\* a search_by_embedding call that searched: an index with vectors, a query of
\* its dimension
Searched ==
    /\ last.op = "search_by_embedding"
    /\ ~index.none
    /\ Ntotal(index) > 0
    /\ Len(last.vec) = index.d

\* C6: search_by_embedding(query, k) returns at most k results, the stored
\* vectors nearest to the query, each with its own record, in order of
\* ascending squared Euclidean distance (non-increasing score); with [1,0],
\* [0,1], [0.9,0.1] stored in that order, query [1,0] and k = 2 give the first
\* record, then the third.
C6_Ranking ==
    Searched =>
        LET r == last.result
            q == last.vec
            pos(i) == r[i].chunk_id + 1
            returned == {pos(i) : i \in 1..Len(r)}
        IN /\ Len(r) = Min(last.k, Ntotal(index))
           /\ \A i \in 1..Len(r) :
                 /\ pos(i) \in 1..Len(metadata)
                 /\ r[i].content_snippet[1] = metadata[pos(i)].text
                 /\ r[i].score = Score(SqDist(index.vecs[pos(i)], q))
           /\ \A i, j \in 1..Len(r) :
                 i < j => /\ pos(i) # pos(j)
                          /\ SqDist(index.vecs[pos(i)], q) <= SqDist(index.vecs[pos(j)], q)
                          /\ ScoreGeq(r[i].score, r[j].score)
           /\ \A p \in (1..Ntotal(index)) \ returned : \A i \in 1..Len(r) :
                 SqDist(index.vecs[pos(i)], q) <= SqDist(index.vecs[p], q)
           /\ (index.vecs = <<e1, e2, e3>> /\ q = e1 /\ last.k = 2)
                 => <<r[1].chunk_id, r[2].chunk_id>> = <<0, 2>>

\* C6's case: the toy store, searched with [1,0] and k = 2
C6_Witness ==
    /\ Searched
    /\ index.vecs = <<e1, e2, e3>>
    /\ last.vec = e1
    /\ last.k = 2
    /\ Len(last.result) = 2

\* a search with the vector stored last, the embedding of the most recently
\* inserted text
SearchedNewest == Searched /\ last.vec = index.vecs[Ntotal(index)]

Rank0IsNewest == last.result # <<>> /\ last.result[1].chunk_id = Ntotal(index) - 1

\* C7: after any inserts of distinct texts, whatever embeddings the provider
\* gave them, a search with the embedding of the text inserted last returns
\* that record at rank 0.
C7_SelfRetrieval == SearchedNewest => Rank0IsNewest

\* C7 amended: ... provided no earlier text was given the same embedding.
C7_SelfRetrievalDistinct ==
    (SearchedNewest /\ \A p \in 1..(Ntotal(index) - 1) : index.vecs[p] # last.vec)
        => Rank0IsNewest

\* C7's case: three texts stored, two of them with one embedding, the search
\* made with the embedding of the third
C7_Witness ==
    /\ SearchedNewest
    /\ Ntotal(index) = 3
    /\ index.vecs[1] = index.vecs[2]
    /\ last.k >= 2

\* what search_by_embedding(q, k) can return on a store
SearchOutcomes(idx, md, q, k) ==
    IF idx.none \/ Ntotal(idx) = 0 \/ FaissSearchRaises(idx, q, k) THEN {<<>>}
    ELSE {SearchResults(md, hits) : hits \in FaissSearch(idx, q, k)}

\* the files are what a _save_index that succeeds now leaves
JustSaved ==
    LET saved == SaveIndex(Current, 0)
    IN <<saved.index_file, saved.metadata_file, saved.cache_file>> = disk

\* the new manager holds what the old one held
SameStoreReloaded ==
    /\ Len(metadata') = Len(metadata)
    /\ metadata' = metadata
    /\ \A q \in Embeddings, k \in Ks :
          SearchOutcomes(index', metadata', q, k) = SearchOutcomes(index, metadata, q, k)

Reloaded(c) == c.op = "restart" /\ c.outcome = "ok"

\* C8: in every store state reached by add, add_with_embedding and clear
\* calls, a _save_index that succeeds followed by a new MemoryManager on the
\* same directory gives a store with the same record count, the same records
\* at the same positions and the same nearest-neighbour ranking for every
\* query.
C8_RoundTrip ==
    [][(Reloaded(last') /\ JustSaved) => SameStoreReloaded]_vars

\* the same for the stores that hold at least one vector, which holds
C8_RoundTripNonEmpty ==
    [][(Reloaded(last') /\ JustSaved /\ NumVectors > 0) => SameStoreReloaded]_vars

C8_NonEmptyWitness ==
    /\ Reloaded(last)
    /\ Len(metadata) = 3
    /\ faults = 1

NoStats == [indexed_urls |-> 0, total_chunks |-> 0, index_size |-> 0]

ZeroStats == GetStats(Current) = NoStats

\* C9: after a clear() that returned, on any store, get_stats() reports
\* total_chunks = 0, indexed_urls = 0 and index_size = 0, and retrieve and
\* search_by_embedding return the empty sequence, until the next insert.
C9_ClearCorrect ==
    /\ []((last.op = "clear" /\ last.outcome = "ok") => ZeroStats)
    /\ [][(ZeroStats /\ metadata' = metadata)
             => /\ ZeroStats'
                /\ last'.op \in {"retrieve", "search_by_embedding"} => last'.result = <<>>
                /\ last'.op = "get_stats" => last'.result = <<NoStats>>]_vars

\* C9's case: a store that was cleared (only clear leaves metadata.json
\* without faiss.index) and whose statistics were then asked for
C9_Witness ==
    /\ last.op = "get_stats"
    /\ last.result = <<NoStats>>
    /\ metadata_file.exists
    /\ ~index_file.exists

\* C10: when the provider fails while add(item) runs, the call fails and the
\* index, the metadata, url_cache and the persisted artifacts are as before.
C10_EmbeddingFailure ==
    [][(last'.op = "add" /\ last'.vec = <<>>)
          => /\ last'.outcome = "EmbeddingFailed"
             /\ UNCHANGED <<store, disk>>]_vars

\* C10's case: the provider failed in an add on a store of two records whose
\* files are behind it
C10_Witness ==
    /\ last.op = "add"
    /\ last.outcome = "EmbeddingFailed"
    /\ Len(metadata) = 2
    /\ metadata_file.data # DumpMetadata(metadata)

\* C11: when the probe of the embedding provider fails while clear() runs, the
\* index, the metadata, url_cache and the persisted artifacts are as before
\* the call, and the store stays usable: no later insert finds it without an
\* index.
C11_ClearProbeFailure ==
    /\ [][(last'.op = "clear" /\ last'.outcome = "EmbeddingFailed")
             => UNCHANGED <<store, disk>>]_vars
    /\ [](last.outcome # "NoIndex")

\* the first half alone: nothing is changed by a clear whose probe failed
C11_ClearProbeFailureNoMutation ==
    [][(last'.op = "clear" /\ last'.outcome = "EmbeddingFailed")
          => UNCHANGED <<store, disk>>]_vars

\* C12: when the provider fails while retrieve runs on a store that holds
\* vectors, the caller gets a failure, which an empty result returned
\* normally is not.
C12_RetrieveFailureSurfaces ==
    (last.op = "retrieve" /\ NumVectors > 0 /\ last.vec = <<>>)
        => last.outcome = "EmbeddingFailed"

\* C13: when a write of _save_index fails in add_with_embedding after the
\* insert, the call raises and the index, the metadata and url_cache keep the
\* new vector and record (nothing is rolled back); the index and the metadata
\* stay aligned.
C13_PersistFailureKeepsInsert ==
    [][(last'.op = "add_with_embedding" /\ last'.outcome = "PersistFailed")
          => LET n == Len(metadata)
                 rec == metadata'[n + 1]
             IN /\ Len(metadata') = n + 1
                /\ SubSeq(metadata', 1, n) = metadata
                /\ rec.text = last'.text
                /\ rec.index = n
                /\ index' = FaissAdd(index, last'.vec)
                /\ url_cache' = CacheUrl(url_cache, rec.url, Now(metadata'))
                /\ Aligned']_vars

\* C13's case: the second insert raised at the write of metadata.json, so
\* faiss.index holds two vectors and metadata.json one record, the store two
\* of each
C13_Witness ==
    /\ last.op = "add_with_embedding"
    /\ last.outcome = "PersistFailed"
    /\ last.writes = <<"index">>
    /\ Len(metadata) = 2
    /\ Ntotal(index) = 2
    /\ Len(metadata_file.data) = 1

\* an add_with_embedding call on a store with an index, with a vector of
\* another length than the index's dimension
MismatchedInsert ==
    /\ last'.op = "add_with_embedding"
    /\ ~index.none
    /\ Len(last'.vec) # index.d

\* no insert, accepted or refused, changes the index's dimension
DimensionKept ==
    [][IsInsertCall(last') => (index'.none = index.none /\ index'.d = index.d)]_vars

\* C14: add_with_embedding with a vector whose length differs from the
\* store's dimension fails at the insert and leaves the index, the metadata,
\* url_cache and the files unchanged; between a load or clear and the next
\* clear no insert changes the dimension.
C14_DimensionMismatch ==
    /\ [][MismatchedInsert
             => /\ last'.outcome = "DimensionMismatch"
                /\ UNCHANGED <<store, disk>>]_vars
    /\ DimensionKept

\* C14 amended: ... with a text that is not stored yet ...
C14_DimensionMismatchNewText ==
    /\ [][(MismatchedInsert /\ ~IsDuplicate(metadata, last'.text))
             => /\ last'.outcome = "DimensionMismatch"
                /\ UNCHANGED <<store, disk>>]_vars
    /\ [][MismatchedInsert => UNCHANGED <<store, disk>>]_vars
    /\ DimensionKept

\* C14's case: a store of two records that a new manager loaded from the
\* files refused a vector of another dimension
C14_Witness ==
    /\ last.op = "add_with_embedding"
    /\ last.outcome = "DimensionMismatch"
    /\ last.vec = BadVector
    /\ Len(metadata) = 2
    /\ index = ReadIndex(index_file.data)
    /\ faults = 1

\* a handler that has begun an insert or a clear and not finished it: the
\* vector is added and the record or the save is still to come, or the fields
\* are reset and the new index is still to come
InsideMutation(t) ==
    t.pc \in {"add_len", "add_append", "add_save", "clear_files", "clear_probe"}

\* no insert and no clear is in progress
Quiescent == \A h \in Handlers : ~InsideMutation(tasks[h])

\* a search_by_embedding call is made in this step
ReadStep == \E h \in Handlers : tasks[h].pc = "search" /\ tasks'[h].pc # "search"

\* C15: under every interleaving of overlapping index, search and clear
\* requests on one MemoryManager, no two inserts assign the same position,
\* the index and the metadata have the same length whenever no call is in
\* progress, at most one insert or clear is in progress at a time, and no
\* search runs while an insert or a clear is half applied.
C15_Serialized ==
    /\ [](\A i, j \in 1..Len(metadata) : metadata[i].index = metadata[j].index => i = j)
    /\ [](Quiescent => NumVectors = Len(metadata))
    /\ [](\A g, h \in Handlers : (InsideMutation(tasks[g]) /\ InsideMutation(tasks[h])) => g = h)
    /\ [][ReadStep => (/\ \A h \in Handlers : ~InsideMutation(tasks[h])
                       /\ NumVectors = Len(metadata))]_vars

\* C15's case: one handler is suspended between the two chunks of its page,
\* the first inserted, while the other handler has just searched
C15_Witness ==
    /\ \E h \in Handlers : tasks[h].pc = "embed_chunk" /\ Len(tasks[h].chunks) = 1
    /\ last.op = "search_by_embedding"
    /\ Len(last.result) >= 1
    /\ Len(metadata) >= 2

\* an insert call that returned and added a record
Inserted(c) == IsInsertCall(c) /\ c.outcome = "ok" /\ Len(metadata') = Len(metadata) + 1

\* a new manager constructed now on the same directory, the provider being
\* unreachable or not, holds exactly the store as it is after the step
LoadGivesStoreAfter ==
    LET ld == LoadOrCreateIndex(State(index', metadata', url_cache',
                                      index_file', metadata_file', cache_file'), FALSE)
    IN /\ ld.outcome = "ok"
       /\ ld.index = index'
       /\ ld.metadata = metadata'
       /\ ld.url_cache = url_cache'

\* C16: whenever an add or add_with_embedding call that inserted a record
\* returns without error, faiss.index, metadata.json and url_cache.json have
\* all been rewritten from the store as it is after the insert, so that a load
\* at that moment gives exactly its vectors, records and url_cache.
C16_PersistAfterInsert ==
    [][Inserted(last')
          => /\ SubSeq(last'.writes, 1, 3) = <<"index", "metadata", "cache">>
             /\ index_file' = File(WriteIndex(index'))
             /\ metadata_file' = File(DumpMetadata(metadata'))
             /\ cache_file' = File(DumpCache(url_cache'))
             /\ LoadGivesStoreAfter]_vars

\* C16's case: a page chunk was inserted as third record, after an earlier
\* call had failed on the disk
C16_Witness ==
    /\ last.op = "add_with_embedding"
    /\ last.outcome = "ok"
    /\ last.writes = <<"index", "metadata", "cache">>
    /\ Len(metadata) = 3
    /\ metadata[3].url # None
    /\ faults = 1

\* the text of one result of retrieve (a MemoryItem) or of
\* search_by_embedding (a SearchResult, whose snippet starts with the text)
ResultText(c, i) ==
    IF c.op = "retrieve" THEN c.result[i].text ELSE c.result[i].content_snippet[1]

\* C17: within one result sequence of retrieve or of search_by_embedding no
\* two results have the same text.
C17_ResultDedup ==
    (last.op \in {"retrieve", "search_by_embedding"})
        => \A i, j \in 1..Len(last.result) :
              ResultText(last, i) = ResultText(last, j) => i = j

\* the same for search_by_embedding alone, which holds
C17_ResultDedupSearch ==
    (last.op = "search_by_embedding")
        => \A i, j \in 1..Len(last.result) :
              ResultText(last, i) = ResultText(last, j) => i = j

\* the step leaves the records and the vectors as they are, or adds one of
\* each at the end
AppendOnlyStep ==
    \/ /\ metadata' = metadata
       /\ index'.vecs = index.vecs
    \/ /\ Len(metadata') = Len(metadata) + 1
       /\ SubSeq(metadata', 1, Len(metadata)) = metadata
       /\ Len(index'.vecs) = Len(index.vecs) + 1
       /\ SubSeq(index'.vecs, 1, Len(index.vecs)) = index.vecs

\* C19: between two clear calls every call, failing ones included, leaves the
\* metadata sequence and the vector sequence unchanged or extends each by
\* exactly one element at the end: a stored record keeps its position, text
\* and metadata and its vector its position.
C19_AppendOnly == [][last'.op # "clear" => AppendOnlyStep]_vars

\* C19's case: a third record was appended by an add whose save then failed
C19_Witness ==
    /\ last.op = "add"
    /\ last.outcome = "PersistFailed"
    /\ Len(metadata) = 3
    /\ Ntotal(index) = 3

\* the hits whose label is a position of a record
ValidHits(md, hits) == SelectSeq(hits, LAMBDA hit : hit.label >= 0 /\ hit.label < Len(md))

\* what retrieve without a filter and search_by_embedding are to return for
\* the hits of one search: the records of the valid hits, in ranking order
ValidItems(md, hits) ==
    LET v == ValidHits(md, hits)
    IN [i \in 1..Len(v) |-> MemoryItemOf(md[v[i].label + 1])]
ValidSearchResults(md, hits) ==
    LET v == ValidHits(md, hits)
    IN [i \in 1..Len(v) |-> SearchResultOf(md[v[i].label + 1], v[i])]

\* a query that searched an index holding more vectors than there are
\* records; for retrieve: no filter, the provider answered, all records
\* MemoryItems
QueriedMismatched ==
    /\ ~index.none
    /\ Ntotal(index) > Len(metadata)
    /\ Len(last.vec) = index.d
    /\ \/ last.op = "search_by_embedding"
       \/ /\ last.op = "retrieve"
          /\ last.filter = None
          /\ \A i \in 1..Len(metadata) : IsMemoryItem(metadata[i])

\* C18: when the index holds more vectors than there are records, retrieve
\* and search_by_embedding return normally, and what they return is the
\* records of the hits whose position is valid, in ranking order, and nothing
\* else.
C18_OutOfRangeSkipped ==
    QueriedMismatched
        => /\ last.outcome = "ok"
           /\ \E hits \in FaissSearch(index, last.vec, last.k) :
                 last.result = IF last.op = "retrieve" THEN ValidItems(metadata, hits)
                               ELSE ValidSearchResults(metadata, hits)

\* the same for the calls whose k does not exceed the number of vectors, so
\* that no -1 label pads the hits: it holds
C18_OutOfRangeSkippedNoPadding ==
    (QueriedMismatched /\ last.k <= Ntotal(index))
        => /\ last.outcome = "ok"
           /\ \E hits \in FaissSearch(index, last.vec, last.k) :
                 last.result = IF last.op = "retrieve" THEN ValidItems(metadata, hits)
                               ELSE ValidSearchResults(metadata, hits)

\* the same for search_by_embedding with any k: it holds
C18_OutOfRangeSkippedSearch ==
    (QueriedMismatched /\ last.op = "search_by_embedding")
        => \E hits \in FaissSearch(index, last.vec, last.k) :
              last.result = ValidSearchResults(metadata, hits)

C18_MismatchedWitness ==
    /\ QueriedMismatched
    /\ last.op = "retrieve"
    /\ Ntotal(index) = 3
    /\ Len(metadata) = 2
    /\ Len(last.result) = 2

\* the store is empty: an index without vectors, no records, no cached url
EmptyStore ==
    /\ ~index.none
    /\ Ntotal(index) = 0
    /\ metadata = <<>>
    /\ url_cache = EmptyCache

\* C20: a new MemoryManager loads the persisted store if and only if
\* faiss.index and metadata.json both exist, without calling the provider; in
\* every other case it probes the provider exactly once and, the probe
\* answered, starts with zero vectors, zero records and an empty url_cache.
\* A clear() that returned leaves no record on disk, and a restart after it
\* gives an empty store.
C20_StartupLoadRule ==
    /\ [][last'.op = "restart"
             => IF index_file.exists /\ metadata_file.exists
                THEN /\ last'.outcome = "ok"
                     /\ last'.probes = 0
                     /\ ~index'.none
                     /\ WriteIndex(index') = index_file.data
                     /\ DumpMetadata(metadata') = metadata_file.data
                     /\ DumpCache(url_cache') = IF cache_file.exists THEN cache_file.data ELSE {}
                ELSE /\ last'.probes = 1
                     /\ last'.outcome = "ok" => EmptyStore']_vars
    /\ []((last.op = "clear" /\ last.outcome = "ok")
             => (~index_file.exists /\ metadata_file.data = <<>> /\ cache_file.data = {}))
    /\ [][(last.op = "clear" /\ last.outcome = "ok" /\ Reloaded(last')) => EmptyStore']_vars

\* C20's case: a first insert wrote faiss.index and failed at metadata.json,
\* so only one of the two files exists, and a new manager started empty
C20_Witness ==
    /\ Reloaded(last)
    /\ last.probes = 1
    /\ index_file.exists
    /\ ~metadata_file.exists
    /\ EmptyStore

\* C20's other case: a restart right after a clear of a store with records
C20_ClearWitness ==
    /\ Reloaded(last)
    /\ last.probes = 1
    /\ ~index_file.exists
    /\ metadata_file.exists
    /\ EmptyStore

\* C21: when a save stopped after some but not all of the three artifacts
\* were rewritten, a new manager on the same directory loads a store whose
\* number of vectors equals its number of records.
C21_LoadAfterInterruptedSave ==
    Reloaded(last) => NumVectors = Len(metadata)

\* the truthy "url" values of the stored records
StoredUrls == {metadata[i].url : i \in {j \in 1..Len(metadata) : Truthy(metadata[j].url)}}

\* an add_with_embedding call with a text that was not stored, on a store
\* that has an index
InsertOfNewText(c) ==
    /\ c.op = "add_with_embedding"
    /\ c.outcome \in {"ok", "PersistFailed"}
    /\ ~IsDuplicate(metadata, c.text)

\* C22: after any add_with_embedding and clear calls from an empty store the
\* keys of url_cache are the non-empty urls of the stored records; url_cache
\* decides no skip: a new text is inserted whether its url is cached or not,
\* and with a cached url the insert changes nothing in url_cache but that
\* url's timestamp, which becomes later.
C22_UrlCacheConsistent ==
    /\ [](DOMAIN url_cache = StoredUrls)
    /\ [][InsertOfNewText(last')
             => LET rec == metadata'[Len(metadata')]
                IN /\ Len(metadata') = Len(metadata) + 1
                   /\ rec.text = last'.text
                   /\ \A u \in DOMAIN url_cache \ {rec.url} :
                         u \in DOMAIN url_cache' /\ url_cache'[u] = url_cache[u]
                   /\ rec.url \in DOMAIN url_cache
                         => /\ DOMAIN url_cache' = DOMAIN url_cache
                            /\ url_cache'[rec.url] > url_cache[rec.url]]_vars

\* C22's case: two chunks of page u1, then a chunk with the empty url; the
\* second chunk refreshed u1's timestamp, the third left url_cache alone
C22_Witness ==
    /\ Len(metadata) = 3
    /\ metadata[1].url = "u1"
    /\ metadata[2].url = "u1"
    /\ metadata[3].url = ""
    /\ DOMAIN url_cache = {"u1"}
    /\ url_cache["u1"] = 2
    /\ last.op = "add_with_embedding"
    /\ last.outcome = "ok"

\* INDEX.ntotal equals len(METADATA) whenever INDEX exists
ServiceAligned == ~service.INDEX.none => Ntotal(service.INDEX) = Len(service.METADATA)

\* the vectors INDEX holds (none when it is None)
ServiceVectors(sv) == IF sv.INDEX.none THEN <<>> ELSE sv.INDEX.vecs

\* the step appended every chunk of the posted page, in the page's order, to
\* INDEX and to METADATA, left what they held in place and cached the url
PageAppended ==
    LET n == Len(last'.result)
        old == Len(service.METADATA)
    IN /\ n > 0
       /\ ~service'.INDEX.none
       /\ Len(ServiceVectors(service')) = Len(ServiceVectors(service)) + n
       /\ Len(service'.METADATA) = old + n
       /\ SubSeq(ServiceVectors(service'), 1, Len(ServiceVectors(service)))
             = ServiceVectors(service)
       /\ SubSeq(service'.METADATA, 1, old) = service.METADATA
       /\ \A i \in 1..n :
             /\ service'.METADATA[old + i].url = last'.text
             /\ service'.METADATA[old + i].chunk = last'.result[i]
             /\ ServiceVectors(service')[Len(ServiceVectors(service)) + i] = last'.vec[i]
       /\ DOMAIN service'.URL_CACHE = DOMAIN service.URL_CACHE \cup {last'.text}
       /\ \A u \in DOMAIN service.URL_CACHE : service'.URL_CACHE[u] = service.URL_CACHE[u]

ServiceUrls == {service.METADATA[i].url : i \in 1..Len(service.METADATA)}

\* no chunk of a url is held twice: the chunk ids (url, position) are distinct
IndexedOnce ==
    \A i, j \in 1..Len(service.METADATA) :
        service.METADATA[i].chunk_id = service.METADATA[j].chunk_id => i = j

====
